---- MODULE Spec2Model ----
(***************************************************************************)
(* State-machine model of Estimator.py: the sample buffers filled by the   *)
(* three subscriber callbacks and the timer-driven update of each          *)
(* estimator class (OracleObserver, DeadReckoning, KalmanFilter,           *)
(* ExtendedKalmanFilter).                                                  *)
(*                                                                         *)
(* Numbers are fixed point, since TLA+ has integers only:                  *)
(*   timestamps      integer clock ticks                                   *)
(*   angles          1/Rad radian  (bearing and wheel angles)              *)
(*   positions       micrometres   (r in mm times a trig value in 1/1000)  *)
(*   wheel speeds    integer rad/s                                         *)
(*   covariances     1/1000                                                *)
(* and every product is rounded by integer division where the code rounds  *)
(* in floating point.                                                      *)
(***************************************************************************)
EXTENDS Integers, Sequences, FiniteSets, TLC

VARIABLES
    cls,      \* the estimator class that was constructed
    u,        \* self.u      : list of input samples        <<t, uL, uR>>
    x,        \* self.x      : list of ground-truth samples <<t, phi, x, y, thl, thr>>
    y,        \* self.y      : list of measurement samples  <<t, m1, m2>>
    x_hat,    \* self.x_hat  : list of estimates, same shape as x
    P,        \* self.P      : covariance of KalmanFilter / ExtendedKalmanFilter
    err,      \* what the most recent call of update raised ("none" if nothing)
    fresh,    \* history: a callback_x has run since the most recent update
    jx,       \* operating point handed to approx_C / h (Jacobian specification)
    jC        \* value returned by approx_C at jx      (Jacobian specification)

vars == <<cls, u, x, y, x_hat, P, err, fresh, jx, jC>>

(***************************************************************************)
(* Bounds of the model.                                                    *)
(***************************************************************************)
MaxT == 2
MaxBuf == 2
MaxHat == 3
MaxCycles == 4
Grid == 9

(***************************************************************************)
(* Program constants (Estimator.__init__, KalmanFilter.__init__).          *)
(***************************************************************************)
\* self.d = 0.08 m, in millimetres
d == 80
\* self.r = 0.033 m, in millimetres
r == 33
\* self.dt = 0.1 s, as the fraction dtNum / dtDen
dtNum == 1
dtDen == 10
\* fixed-point units per radian
Rad == 8000
\* fixed-point units per 1.0 of a trigonometric value, gain or covariance
One == 1000
\* self.phid = np.pi / 4, in 1/Rad radian
phid == 6283

Classes == {"OracleObserver", "DeadReckoning", "KalmanFilter", "ExtendedKalmanFilter"}

(***************************************************************************)
(* np.cos and np.sin in fixed point: the Taylor polynomial to the fourth   *)
(* (fifth) order, exact to 1/One on the bearings the model reaches.        *)
(***************************************************************************)
HalfSq(p) == (p * p) \div ((2 * Rad * Rad) \div One)

Cos(p) == One - HalfSq(p) + (HalfSq(p) * HalfSq(p)) \div (6 * One)

Sin(p) ==
    (p * One) \div Rad
        - (p * HalfSq(p)) \div (3 * Rad)
        + (p * HalfSq(p) * HalfSq(p)) \div (30 * Rad * One)

(***************************************************************************)
(* Messages the transport can deliver.  Each stream's timestamps are       *)
(* non-decreasing in arrival order; the streams are independent.  No       *)
(* estimator reads the timestamp y[k][0] of a measurement, so the k-th     *)
(* measurement is simply stamped k.                                        *)
(***************************************************************************)
XStates == { <<0, 0, 0, 0, 0>>, <<phid, 2000, 1000, 800, 1600>> }
UInputs == { <<1, 1>>, <<0, 1>> }
YMeas == { <<0, 0>>, <<3000, 1000>> }

LastT(buf) == IF Len(buf) = 0 THEN 0 ELSE buf[Len(buf)][1]

Msgs(buf, data) == { <<t>> \o v : t \in LastT(buf)..MaxT, v \in data }

\* Python's seq[-1]
Last(s) == s[Len(s)]

\* Python's seq[1:]
Rest(s) == SubSeq(s, 2, Len(s))

(***************************************************************************)
(* Estimator.__init__ and the subscriber callbacks.                        *)
(***************************************************************************)
\* self.P after __init__: the diagonal of np.eye(4) * 0.1 for KalmanFilter
\* (the matrix stays diagonal: A is the identity, C selects two coordinates
\* and Q, R are diagonal); for ExtendedKalmanFilter the matrix reached from
\* 0.05 * np.eye(5) by the counted covariance extrapolations and updates.
KF_P0 == 100
KF_Q == 100
KF_R == 100

InitP(c) ==
    CASE c = "KalmanFilter" -> <<KF_P0, KF_P0, KF_P0, KF_P0>>
      [] c = "ExtendedKalmanFilter" -> [extrapolations |-> 0, updates |-> 0]
      [] OTHER -> "none"

Init ==
    /\ cls \in Classes
    /\ u = <<>>
    /\ x = <<>>
    /\ y = <<>>
    /\ x_hat = <<>>
    /\ P = InitP(cls)
    /\ err = "none"
    /\ fresh = TRUE
    /\ jx = "none"
    /\ jC = "none"

callback_u ==
    /\ Len(u) < MaxBuf
    /\ \E msg \in Msgs(u, UInputs) : u' = Append(u, msg)
    /\ UNCHANGED <<cls, x, y, x_hat, P, err, fresh, jx, jC>>

\* mutant of Seed: every ground-truth arrival is appended to self.x_hat
SeedAlways(xh, msg) == Append(xh, msg)

\* what callback_x leaves in self.x_hat
Seed(xh, msg) == IF Len(xh) = 0 THEN Append(xh, msg) ELSE xh

callback_x ==
    /\ Len(x) < MaxBuf
    /\ \E msg \in Msgs(x, XStates) :
          /\ x' = Append(x, msg)
          /\ x_hat' = Seed(x_hat, msg)
    /\ fresh' = TRUE
    /\ UNCHANGED <<cls, u, y, P, err, jx, jC>>

callback_y ==
    /\ Len(y) < MaxBuf
    /\ \E v \in YMeas : y' = Append(y, <<Len(y)>> \o v)
    /\ UNCHANGED <<cls, u, x, x_hat, P, err, fresh, jx, jC>>

(***************************************************************************)
(* The gate shared by DeadReckoning, KalmanFilter and ExtendedKalmanFilter:*)
(*   len(self.x_hat) > 0 and self.x_hat[-1][0] < self.x[-1][0]             *)
(***************************************************************************)
Gate == Len(x_hat) > 0 /\ Last(x_hat)[1] < Last(x)[1]

(***************************************************************************)
(* OracleObserver.update: self.x_hat.append(self.x[-1]).                   *)
(***************************************************************************)
OracleObserverUpdate ==
    /\ cls = "OracleObserver"
    /\ fresh' = FALSE
    /\ IF Len(x) = 0
       THEN /\ err' = "IndexError"
            /\ UNCHANGED x_hat
       ELSE /\ Len(x_hat) < MaxHat
            /\ err' = "none"
            /\ x_hat' = Append(x_hat, Last(x))
    /\ UNCHANGED <<cls, u, x, y, P, jx, jC>>

(***************************************************************************)
(* DeadReckoning.                                                          *)
(***************************************************************************)
\* (M @ u) * self.dt for one row M = <<a, b>>
RowStep(a, b, uk) == ((a * uk[1] + b * uk[2]) * dtNum) \div dtDen

\* DeadReckoning.g(x, u), x = <<phi, x, y, thl, thr>>, u = <<uL, uR>>
g(xs, uk) ==
    << xs[1] + RowStep(-((r * Rad) \div (2 * d)), (r * Rad) \div (2 * d), uk),
       xs[2] + RowStep((r * Cos(xs[1])) \div 2, (r * Cos(xs[1])) \div 2, uk),
       xs[3] + RowStep((r * Sin(xs[1])) \div 2, (r * Sin(xs[1])) \div 2, uk),
       xs[4] + RowStep(Rad, 0, uk),
       xs[5] + RowStep(0, Rad, uk) >>

\* mutant of DRLoop: one step with the most recent input instead of the replay
DRLoopLatestOnly(k, xs, us) ==
    IF Len(us) = 0 THEN xs ELSE g(xs, Rest(Last(us)))

\* the loop  for k in range(len(self.u)): x_hat = self.g(x_hat, u[k][1:])
\* from iteration k (1-based) on
RECURSIVE DRLoop(_, _, _)
DRLoop(k, xs, us) ==
    IF k > Len(us) THEN xs ELSE DRLoop(k + 1, g(xs, Rest(us[k])), us)

\* the estimate a gated DeadReckoning.update appends
DREstimate(xb, us) == <<Last(xb)[1]>> \o DRLoop(1, Rest(xb[1]), us)

DeadReckoningUpdate ==
    /\ cls = "DeadReckoning"
    /\ fresh' = FALSE
    /\ err' = "none"
    /\ IF Gate
       THEN /\ Len(x_hat) < MaxHat
            /\ x_hat' = Append(x_hat, DREstimate(x, u))
       ELSE UNCHANGED x_hat
    /\ UNCHANGED <<cls, u, x, y, P, jx, jC>>

(***************************************************************************)
(* KalmanFilter.                                                           *)
(***************************************************************************)
\* self.B = np.array([...]) * self.dt, row by row
KF_B ==
    << << (((r * Cos(phid)) \div 2) * dtNum) \div dtDen,
          (((r * Cos(phid)) \div 2) * dtNum) \div dtDen >>,
       << (((r * Sin(phid)) \div 2) * dtNum) \div dtDen,
          (((r * Sin(phid)) \div 2) * dtNum) \div dtDen >>,
       << (Rad * dtNum) \div dtDen, 0 >>,
       << 0, (Rad * dtNum) \div dtDen >> >>

\* P_pred = self.A @ self.P @ self.A.T + self.Q        (A = np.eye(4))
KF_Ppred(Pd) == [i \in 1..4 |-> Pd[i] + KF_Q]

\* K = P_pred @ C.T @ inv(C @ P_pred @ C.T + R): its two non-zero entries
KF_Gain(Pd) == [i \in 1..2 |-> (KF_Ppred(Pd)[i] * One) \div (KF_Ppred(Pd)[i] + KF_R)]

\* self.P = (np.eye(4) - K @ self.C) @ P_pred
KF_Pnew(Pd) ==
    [i \in 1..4 |->
        IF i <= 2 THEN ((One - KF_Gain(Pd)[i]) * KF_Ppred(Pd)[i]) \div One
                  ELSE KF_Ppred(Pd)[i]]

\* x_pred = self.A @ x_prev + self.B @ u_k[1:],  x_prev = x_hat[[2, 3, 4, 5]]
KF_xpred(xh, uk) ==
    [i \in 1..4 |-> xh[i + 2] + KF_B[i][1] * uk[2] + KF_B[i][2] * uk[3]]

\* x_update = x_pred + K @ (y_k[1:] - self.C @ x_pred)
KF_xupdate(xh, Pd, uk, yk) ==
    [i \in 1..4 |->
        IF i <= 2
        THEN KF_xpred(xh, uk)[i]
                + (KF_Gain(Pd)[i] * (yk[i + 1] - KF_xpred(xh, uk)[i])) \div One
        ELSE KF_xpred(xh, uk)[i]]

\* one pass of the loop body: the new local x_hat
KF_Cycle(xh, Pd, uk, yk) ==
    << uk[1], phid,
       KF_xupdate(xh, Pd, uk, yk)[1], KF_xupdate(xh, Pd, uk, yk)[2],
       KF_xupdate(xh, Pd, uk, yk)[3], KF_xupdate(xh, Pd, uk, yk)[4] >>

\* the loop from iteration k (1-based) on; self.y[k] raises IndexError when
\* fewer than k measurements are buffered, and self.P keeps what the earlier
\* iterations wrote
RECURSIVE KFLoop(_, _, _, _, _)
KFLoop(k, xh, Pd, us, ys) ==
    IF k > Len(us) THEN [x_hat |-> xh, P |-> Pd, raised |-> FALSE]
    ELSE IF k > Len(ys) THEN [x_hat |-> xh, P |-> Pd, raised |-> TRUE]
    ELSE KFLoop(k + 1, KF_Cycle(xh, Pd, us[k], ys[k]), KF_Pnew(Pd), us, ys)

\* cycles self.P has been through
KF_Cycles(Pd) == (Pd[4] - KF_P0) \div KF_Q

KalmanFilterUpdate ==
    /\ cls = "KalmanFilter"
    /\ fresh' = FALSE
    /\ IF Gate
       THEN LET res == KFLoop(1, x[1], P, u, y) IN
            /\ KF_Cycles(P) + Len(u) <= MaxCycles
            /\ P' = res.P
            /\ IF res.raised
               THEN /\ err' = "IndexError"
                    /\ UNCHANGED x_hat
               ELSE /\ Len(x_hat) < MaxHat
                    /\ err' = "none"
                    /\ x_hat' = Append(x_hat, res.x_hat)
       ELSE /\ err' = "none"
            /\ UNCHANGED <<x_hat, P>>
    /\ UNCHANGED <<cls, u, x, y, jx, jC>>

(***************************************************************************)
(* ExtendedKalmanFilter.  The state extrapolation g is computed; the       *)
(* matrices A, C, K and P hold square roots and a pseudo-inverse, so P is  *)
(* kept as the count of extrapolations and updates it has been through and *)
(* the correction K @ (y - h(x)) is any vector of Corrections.             *)
(***************************************************************************)
\* ExtendedKalmanFilter.g(x, u): the same text as DeadReckoning.g
EKF_g(xs, uk) ==
    << xs[1] + RowStep(-((r * Rad) \div (2 * d)), (r * Rad) \div (2 * d), uk),
       xs[2] + RowStep((r * Cos(xs[1])) \div 2, (r * Cos(xs[1])) \div 2, uk),
       xs[3] + RowStep((r * Sin(xs[1])) \div 2, (r * Sin(xs[1])) \div 2, uk),
       xs[4] + RowStep(Rad, 0, uk),
       xs[5] + RowStep(0, Rad, uk) >>

Corrections == { <<0, 0, 0, 0, 0>>, <<-40, 25, -25, 0, 0>> }

\* self.P = self.A @ self.P @ self.A.T + self.Q
EKF_Extrapolate(Pc) == [Pc EXCEPT !.extrapolations = @ + 1]

\* self.P = (np.eye(5) - K @ self.C) @ self.P
EKF_CovUpdate(Pc) == [Pc EXCEPT !.updates = @ + 1]

\* [self.x[-1][0]] + list(x_t_1)
EKF_Estimate(xb, xh, us, corr) ==
    <<Last(xb)[1]>> \o
        [i \in 1..5 |-> EKF_g(Rest(Last(xh)), Rest(Last(us)))[i] + corr[i]]

ExtendedKalmanFilterUpdate ==
    /\ cls = "ExtendedKalmanFilter"
    /\ fresh' = FALSE
    /\ IF ~Gate
       THEN /\ err' = "none"
            /\ UNCHANGED <<x_hat, P>>
       ELSE IF Len(u) = 0
       THEN /\ err' = "IndexError"
            /\ UNCHANGED <<x_hat, P>>
       ELSE IF Len(y) = 0
       THEN /\ P.extrapolations < MaxCycles
            /\ err' = "IndexError"
            /\ P' = EKF_Extrapolate(P)
            /\ UNCHANGED x_hat
       ELSE /\ P.extrapolations < MaxCycles
            /\ Len(x_hat) < MaxHat
            /\ err' = "none"
            /\ P' = EKF_CovUpdate(EKF_Extrapolate(P))
            /\ \E corr \in Corrections :
                  x_hat' = Append(x_hat, EKF_Estimate(x, x_hat, u, corr))
    /\ UNCHANGED <<cls, u, x, y, jx, jC>>

(***************************************************************************)
(* The estimator: callbacks and timer ticks in any order.                  *)
(***************************************************************************)
update ==
    \/ OracleObserverUpdate
    \/ DeadReckoningUpdate
    \/ KalmanFilterUpdate
    \/ ExtendedKalmanFilterUpdate

Next ==
    \/ callback_u
    \/ callback_x
    \/ callback_y
    \/ OracleObserverUpdate
    \/ DeadReckoningUpdate
    \/ KalmanFilterUpdate
    \/ ExtendedKalmanFilterUpdate

Spec == Init /\ [][Next]_vars

(***************************************************************************)
(* The estimator constructed as a DeadReckoning.                           *)
(***************************************************************************)
InitDR == Init /\ cls = "DeadReckoning"

NextDR ==
    \/ callback_u
    \/ callback_x
    \/ callback_y
    \/ DeadReckoningUpdate

SpecDR == InitDR /\ [][NextDR]_vars

(***************************************************************************)
(* ExtendedKalmanFilter.h and approx_C as pure functions, in exact         *)
(* rational arithmetic.  Here positions are in decimetres and a number is  *)
(* a pair <<n, q>> for n / q in lowest terms with q >= 0; q = 0 gives the  *)
(* floating-point specials numpy produces on a division by zero:           *)
(* <<1, 0>> = inf, <<-1, 0>> = -inf, <<0, 0>> = nan.                       *)
(***************************************************************************)
Abs(n) == IF n < 0 THEN -n ELSE n

Sign(n) == IF n < 0 THEN -1 ELSE IF n > 0 THEN 1 ELSE 0

RECURSIVE GCD(_, _)
GCD(a, b) == IF b = 0 THEN a ELSE GCD(b, a % b)

Rat(n, q) ==
    IF q = 0 THEN <<Sign(n), 0>>
    ELSE <<(Sign(q) * n) \div GCD(Abs(n), Abs(q)), Abs(q) \div GCD(Abs(n), Abs(q))>>

RatAdd(a, b) == Rat(a[1] * b[2] + b[1] * a[2], a[2] * b[2])

RatMul(a, b) == Rat(a[1] * b[1], a[2] * b[2])

RatDiv(a, b) == Rat(a[1] * b[2], a[2] * b[1])

RatNeg(a) == <<-a[1], a[2]>>

RatInt(n) == <<n, 1>>

\* self.landmark = (0.5, 0.5), in decimetres
landmark == <<5, 5>>

\* dist_to_landmark(x): the number under np.sqrt
dist_to_landmark(xs) ==
    (landmark[1] - xs[2]) * (landmark[1] - xs[2])
        + (landmark[2] - xs[3]) * (landmark[2] - xs[3])

\* h(x): the distance (as the number under the root) and the relative
\* bearing x[0] - np.arctan2(a, b), kept as x[0] and the pair <<a, b>>
h(xs) ==
    [ dist |-> dist_to_landmark(xs),
      phi |-> xs[1],
      arctan2 |-> <<landmark[1] - xs[2], landmark[2] - xs[3]>> ]

\* the differential of np.arctan2(a, b) along <<da, db>>
Darctan2(a, b, da, db) == Rat(b * da - a * db, a * a + b * b)

\* xs moved by one unit along state coordinate i
Shift(xs, i) == [k \in 1..5 |-> IF k = i THEN xs[k] + 1 ELSE xs[k]]

\* the partial derivative of h's relative bearing by state coordinate i: the
\* chain rule over the terms of h, each of them affine in the state
Dh_bearing(xs, i) ==
    RatAdd(RatInt(h(Shift(xs, i)).phi - h(xs).phi),
           RatNeg(Darctan2(h(xs).arctan2[1], h(xs).arctan2[2],
                           h(Shift(xs, i)).arctan2[1] - h(xs).arctan2[1],
                           h(Shift(xs, i)).arctan2[2] - h(xs).arctan2[2])))

\* 1 / (1 + (l_y_diff / l_x_diff) ** 2)
C_Factor(l_x_diff, l_y_diff) ==
    RatDiv(RatInt(1),
           RatAdd(RatInt(1),
                  RatMul(RatDiv(RatInt(l_y_diff), RatInt(l_x_diff)),
                         RatDiv(RatInt(l_y_diff), RatInt(l_x_diff)))))

\* the second row of approx_C, from l_x_diff and l_y_diff
C_Row2(l_x_diff, l_y_diff) ==
    << RatInt(1),
       RatDiv(RatMul(RatNeg(C_Factor(l_x_diff, l_y_diff)), RatInt(l_y_diff)),
              RatMul(RatInt(l_x_diff), RatInt(l_x_diff))),
       RatDiv(C_Factor(l_x_diff, l_y_diff), RatInt(l_x_diff)),
       RatInt(0), RatInt(0) >>

\* approx_C(x); an entry of the first row is <<n, s>> for n / sqrt(s)
approx_C(xs) ==
    << << <<0, 1>>,
          <<xs[2] - landmark[1], dist_to_landmark(xs)>>,
          <<xs[3] - landmark[2], dist_to_landmark(xs)>>,
          <<0, 1>>, <<0, 1>> >>,
       C_Row2(landmark[1] - xs[2], landmark[2] - xs[3]) >>

\* operating points: the robot on the grid 0..Grid x 0..Grid, bearing 0
OperatingPoints == { <<0, px, py, 0, 0>> : px \in 0..Grid, py \in 0..Grid }

JacInit ==
    /\ cls = "ExtendedKalmanFilter"
    /\ u = <<>>
    /\ x = <<>>
    /\ y = <<>>
    /\ x_hat = <<>>
    /\ P = InitP(cls)
    /\ err = "none"
    /\ fresh = TRUE
    /\ jx \in OperatingPoints
    /\ jC = "none"

\* self.C = self.approx_C(x_t_1)
Linearize ==
    /\ jC = "none"
    /\ jC' = approx_C(jx)
    /\ UNCHANGED <<cls, u, x, y, x_hat, P, err, fresh, jx>>

\* the next activation, at another operating point
Relocate ==
    /\ jC # "none"
    /\ jx' \in OperatingPoints
    /\ jC' = "none"
    /\ UNCHANGED <<cls, u, x, y, x_hat, P, err, fresh>>

JacNext ==
    \/ Linearize
    \/ Relocate

SpecJac == JacInit /\ [][JacNext]_vars

(***************************************************************************)
(* Properties.                                                             *)
(***************************************************************************)
\* the classes whose update is gated
Gated == {"DeadReckoning", "KalmanFilter", "ExtendedKalmanFilter"}

\* C1 (gate idempotence): for DeadReckoning, KalmanFilter and
\* ExtendedKalmanFilter, an update that runs with no callback_x since the
\* previous update appends nothing to x_hat.
C1_GateIdempotence ==
    [][(cls \in Gated /\ update /\ ~fresh) => x_hat' = x_hat]_vars

\* C2 (length bound): for the three gated classes the estimate sequence is
\* never longer than the ground-truth sequence.
C2_LengthBound == cls \in Gated => Len(x_hat) <= Len(x)

\* C3 (starvation): for the three gated classes an update that runs while u
\* or y is empty raises nothing and appends nothing.
C3_StarvationNoOp ==
    [][(cls \in Gated /\ update /\ (Len(u) = 0 \/ Len(y) = 0))
          => (err' = "none" /\ x_hat' = x_hat)]_vars

\* C4 (seeding): a non-empty x_hat starts with the first ground-truth sample,
\* field for field, and a ground-truth arrival appends to x_hat exactly when
\* it is the first one.
C4_SeededOnce ==
    /\ [](Len(x_hat) > 0 => (Len(x) > 0 /\ x_hat[1] = x[1]))
    /\ [][x' # x =>
            IF Len(x) = 0 THEN x_hat' = <<x'[1]>> ELSE x_hat' = x_hat]_vars

\* C4 witness: the estimate was seeded by the first arrival and a second,
\* different ground-truth sample has arrived without seeding again.
C4_Witness ==
    /\ Len(x) = 2
    /\ x[2] # x[1]
    /\ Len(x_hat) >= 1
    /\ x_hat[1] = x[1]
    /\ \A i \in 1..Len(x_hat) : x_hat[i] # x[2]

\* C5 (monotone estimates): with each ingested stream non-decreasing in time,
\* the timestamps of x_hat are non-decreasing for the three gated classes.
C5_MonotoneEstimates ==
    cls \in Gated =>
        \A i \in 1..(Len(x_hat) - 1) : x_hat[i][1] <= x_hat[i + 1][1]

\* C6 (seeding race): an update that runs before any ground-truth sample has
\* arrived raises nothing and changes no estimator state, for every class
\* that defines update.
C6_UpdateBeforeSeed ==
    [][(update /\ Len(x) = 0 /\ Len(x_hat) = 0)
          => (err' = "none" /\ UNCHANGED <<u, x, y, x_hat, P>>)]_vars

\* C7 (one cycle per activation): a gated KalmanFilter update with an input
\* and a measurement buffered replaces P once: P becomes the covariance
\* update of the P it started from, however many inputs are buffered.
C7_OneCyclePerUpdate ==
    [][(KalmanFilterUpdate /\ Gate /\ Len(u) > 0 /\ Len(y) > 0)
          => P' = KF_Pnew(P)]_vars

\* C8 (nominal bearing): every estimate KalmanFilter.update appends has the
\* bearing phid.
C8_BearingIsPhid ==
    [][(KalmanFilterUpdate /\ Len(x_hat') = Len(x_hat) + 1)
          => Last(x_hat')[2] = phid]_vars

\* the left fold of the process model g over the inputs, in arrival order
RECURSIVE FoldG(_, _)
FoldG(xs, us) ==
    IF us = <<>> THEN xs ELSE FoldG(g(xs, Rest(Head(us))), Tail(us))

\* a step of the timer: no callback ran, so update did
UpdateStep == u' = u /\ x' = x /\ y' = y

C10_JacobianOfH ==
    (jC # "none" /\ dist_to_landmark(jx) # 0)
        => (jC[2][2] = Dh_bearing(jx, 2) /\ jC[2][3] = Dh_bearing(jx, 3))

\* C11 (ticks against arrivals): a KalmanFilter update whose gate is true
\* completes without an index error, also when fewer measurements than
\* inputs are buffered.
C11_NoIndexError ==
    [][(cls = "KalmanFilter" /\ Gate /\ UpdateStep) => err' # "IndexError"]_vars

====
